---- MODULE Spec2Model ----
(***************************************************************************)
(* A model of src/n-puzzle.ipynb: the sliding-tile puzzle solver.          *)
(*                                                                         *)
(* A grid is a tuple of rows (numpy array of shape (dim, dim)); positions  *)
(* are 0-indexed pairs <<x, y>> as in the source.  The model follows one   *)
(* caller: either solve_instance (which scrambles the goal with            *)
(* init_state and then calls astar) or the experiment helper solve (which  *)
(* calls astar on a grid supplied by its caller), and then a repetition   *)
(* of the same astar call.                                                 *)
(*                                                                         *)
(* hash(content.tobytes()) is modelled as an injective encoding of the     *)
(* grid that depends on a per-process seed (Python salts the hash of       *)
(* bytes per process): hash collisions are not modelled.  The heuristic    *)
(* is fixed_heuristic with an integer exponent; the two scheduled          *)
(* heuristics (real-valued exponents) are not modelled.                    *)
(***************************************************************************)
EXTENDS Integers, Sequences, FiniteSets, TLC

\* ---- program constants
MIN_PUZ_DIM == 2
MAX_PUZ_DIM == 3
LOG_EVERY == 10000

\* the exponents the notebook runs the fixed heuristic with on these sizes
ExpValues == {1, 2}

\* ---- bounds of the model
MaxScramble == 8
NumSeeds == 2
MaxForeign == 2

VARIABLES
    pc,          \* "init_state", "call", "while", "for", "done", "raised"
    entry,       \* the caller: "solve_instance" or "solve"
    puzzle_dim,  \* state.shape[0]
    content,     \* the start grid handed to astar
    exp,         \* the exponent handed to astar
    seed,        \* the per-process salt of hash()
    k,           \* init_state: iterations of the randomize loop done so far
    calls,       \* do_action.calls
    open_set,    \* astar: the heap, as the set of its entries <<cost, State, path>>
    closed_set,  \* astar: set of States
    past_len,    \* astar: dict State -> int, keyed by the State's hash
    steps,       \* astar: steps
    current,     \* astar: the popped State
    curr_path,   \* astar: the popped path
    actions,     \* astar: what the for loop has still to iterate over
    result,      \* what astar returned: <<success, path>>
    error,       \* the exception that left astar, "" if none
    run,         \* 1 for the first astar call, 2 for its repetition
    first,       \* the result of the first call, kept by the caller
    generated,   \* bookkeeping: successors generated by this astar call
    pops,        \* bookkeeping: heappop calls of this astar call
    pushes,      \* bookkeeping: heappush calls of this astar call
    relaxed,     \* bookkeeping: pushes of a neighbor that was already in closed_set
    carried,     \* bookkeeping: do_action.calls when this astar call was entered
    foreign      \* bookkeeping: do_action calls of another solve during this astar call

vars == <<pc, entry, puzzle_dim, content, exp, seed, k, calls, open_set,
          closed_set, past_len, steps, current, curr_path, actions, result,
          error, run, first, generated, pops, pushes, relaxed, carried, foreign>>

astar_vars == <<open_set, closed_set, past_len, steps, current, curr_path, actions>>

\* ---------------------------------------------------------------- helpers

Abs(i) == IF i < 0 THEN -i ELSE i

RECURSIVE Pow(_, _)
Pow(b, e) == IF e = 0 THEN 1 ELSE b * Pow(b, e - 1)

\* state[pos] for a position tuple
Cell(state, pos) == state[pos[1] + 1][pos[2] + 1]

\* the positions of a dim x dim array in row-major order
Positions(dim) == [i \in 1..(dim * dim) |-> <<(i - 1) \div dim, (i - 1) % dim>>]

\* np.where(state == n) / np.argwhere(state == n): the positions holding n, row-major
Where(state, n) == SelectSeq(Positions(Len(state)), LAMBDA p : Cell(state, p) = n)

\* set_goal
SetGoal(dim) == [r \in 1..dim |-> [c \in 1..dim |-> ((r - 1) * dim + c) % (dim * dim)]]

\* ---------------------------------------------------------------- State

\* hash(content.tobytes()): the cells, salted, read as one little-endian number
RECURSIVE Encode(_, _, _, _)
Encode(state, salt, i, acc) ==
    LET dim == Len(state) IN
    IF i = 0 THEN acc
    ELSE Encode(state, salt, i - 1,
                acc * (dim * dim) + ((Cell(state, Positions(dim)[i]) + salt) % (dim * dim)))

\* a salt drawn anew for every astar call
PerCallSalt == seed + run - 1
ProcessSalt == seed

\* a hash of the first row only
HashFirstRow(state) == Encode(state, ProcessSalt, Len(state), 0)

Hash(state) == Encode(state, ProcessSalt, Len(state) * Len(state), 0)

State(c) == [content |-> c, hash |-> Hash(c)]

StateEq(a, b) == a.hash = b.hash
StateLt(a, b) == a.hash < b.hash

\* ---------------------------------------------------------------- actions of the puzzle

Action(p1, p2) == [pos1 |-> p1, pos2 |-> p2]

\* "up" written with both coordinates decremented
AvailableActionsDiag(state) ==
    LET dim == Len(state)
        p == Where(state, 0)[1]
        x == p[1]
        y == p[2]
    IN  (IF x > 0 /\ y > 0 THEN <<Action(<<x, y>>, <<x - 1, y - 1>>)>> ELSE <<>>)
        \o (IF x < dim - 1 THEN <<Action(<<x, y>>, <<x + 1, y>>)>> ELSE <<>>)
        \o (IF y > 0 THEN <<Action(<<x, y>>, <<x, y - 1>>)>> ELSE <<>>)
        \o (IF y < dim - 1 THEN <<Action(<<x, y>>, <<x, y + 1>>)>> ELSE <<>>)

AvailableActions(state) ==
    LET dim == Len(state)
        p == Where(state, 0)[1]
        x == p[1]
        y == p[2]
    IN  (IF x > 0 THEN <<Action(<<x, y>>, <<x - 1, y>>)>> ELSE <<>>)
        \o (IF x < dim - 1 THEN <<Action(<<x, y>>, <<x + 1, y>>)>> ELSE <<>>)
        \o (IF y > 0 THEN <<Action(<<x, y>>, <<x, y - 1>>)>> ELSE <<>>)
        \o (IF y < dim - 1 THEN <<Action(<<x, y>>, <<x, y + 1>>)>> ELSE <<>>)

\* the counter decorator: helper.calls += 1
\* a wrapper that forgets the increment
HelperNoCount(c) == c
Helper(c) == c + 1

\* the two cells written one after the other: both end up with pos2's value
DoActionOverwrite(state, a) ==
    [r \in 1..Len(state) |-> [c \in 1..Len(state) |->
        IF <<r - 1, c - 1>> = a.pos1 THEN Cell(state, a.pos2) ELSE state[r][c]]]

\* do_action's body: copy, swap the two cells; the value returned
DoAction(state, a) ==
    [r \in 1..Len(state) |-> [c \in 1..Len(state) |->
        IF <<r - 1, c - 1>> = a.pos1 THEN Cell(state, a.pos2)
        ELSE IF <<r - 1, c - 1>> = a.pos2 THEN Cell(state, a.pos1)
        ELSE state[r][c]]]

\* the swap done on the argument itself, no copy taken
ArgSwappedInPlace(state, a) ==
    [r \in 1..Len(state) |-> [c \in 1..Len(state) |->
        IF <<r - 1, c - 1>> = a.pos1 THEN Cell(state, a.pos2)
        ELSE IF <<r - 1, c - 1>> = a.pos2 THEN Cell(state, a.pos1)
        ELSE state[r][c]]]

\* do_action's argument after the call: the swap is done on state.copy()
ArgAfterDoAction(state, a) == state

\* ---------------------------------------------------------------- heuristic

\* get_pos raises IndexError when n is not in the array
GetPosNeverRaises(state, n) == FALSE
GetPosRaises(state, n) == Where(state, n) = <<>>
GetPos(state, n) == Where(state, n)[1]

ManhattanDistance(state, goal, n, p) ==
    LET p1 == GetPos(state, n)
        p2 == GetPos(goal, n)
    IN  Pow(Abs(p1[1] - p2[1]) + Abs(p1[2] - p2[2]), p)

RECURSIVE SumManhattan(_, _, _, _)
SumManhattan(state, goal, n, p) ==
    IF n = 0 THEN 0
    ELSE SumManhattan(state, goal, n - 1, p) + ManhattanDistance(state, goal, n, p)

HeuristicRaises(state, goal) ==
    \E n \in 1..(Len(state) * Len(state) - 1) : GetPosRaises(state, n) \/ GetPosRaises(goal, n)

\* the sum taken over range(0, puzzle_dim**2): the blank counted as a tile
FixedHeuristicWithBlank(state, goal, e, p) ==
    Pow(SumManhattan(state, goal, Len(state) * Len(state) - 1, p)
          + ManhattanDistance(state, goal, 0, p), e)

FixedHeuristic(state, goal, e, p) ==
    Pow(SumManhattan(state, goal, Len(state) * Len(state) - 1, p), e)

\* ---------------------------------------------------------------- heap order

\* Python's tuple / list comparison on positions, Actions and paths
PosLt(a, b) == IF a[1] # b[1] THEN a[1] < b[1] ELSE a[2] < b[2]
ActionLt(a, b) == IF a.pos1 # b.pos1 THEN PosLt(a.pos1, b.pos1) ELSE PosLt(a.pos2, b.pos2)

PathLt(p, q) ==
    LET diff == {i \in 1..Len(p) : i <= Len(q) /\ p[i] # q[i]}
    IN  IF diff # {}
        THEN LET i == CHOOSE j \in diff : \A l \in diff : j <= l IN ActionLt(p[i], q[i])
        ELSE Len(p) < Len(q)

\* (cost, State, path) < (cost, State, path)
EntryLt(a, b) ==
    IF a[1] # b[1] THEN a[1] < b[1]
    ELSE IF ~StateEq(a[2], b[2]) THEN StateLt(a[2], b[2])
    ELSE PathLt(a[3], b[3])

\* heappop: the smallest entry
HeapMin(heap) == CHOOSE e \in heap : \A o \in heap : o = e \/ EntryLt(e, o)

\* States compared by identity: a new State is in no set
InClosedNever(s, closed) == FALSE

\* neighbor in closed_set
InClosed(s, closed) == \E t \in closed : StateEq(t, s)

\* the pushed neighbor not marked visited
AddVisitedSkipped(closed, s) == closed
\* closed_set.add(neighbor): a set holds one State per hash
AddVisited(closed, s) == IF InClosed(s, closed) THEN closed ELSE closed \cup {s}

\* the comparison written <=
RelaxLe(pl, cur, nb) == pl[cur.hash] + 1 <= pl[nb.hash]
\* past_len[current] + 1 < past_len[neighbor]
Relax(pl, cur, nb) == pl[cur.hash] + 1 < pl[nb.hash]

\* the "not" of the test left out
PushConditionInverted(nb, closed, pl, cur) == InClosed(nb, closed)

\* neighbor not in closed_set or past_len[current] + 1 < past_len[neighbor]
PushCondition(nb, closed, pl, cur) == ~InClosed(nb, closed) \/ Relax(pl, cur, nb)

\* the path length left out of the priority: best-first on the heuristic alone
CostHeuristicOnly(g, h) == h
\* cost = past_len[neighbor] + heuristic(...)
Cost(g, h) == g + h

\* curr_path pushed as it is
ExtendDrop(path, a) == path
\* curr_path + [action]
Extend(path, a) == Append(path, a)

\* ---------------------------------------------------------------- inputs

\* the grids a caller of solve may hand over: every 2 x 2 array over 0..3,
\* permutation or not, reachable from the goal or not
SuppliedGrids ==
    LET V == 0..(MIN_PUZ_DIM * MIN_PUZ_DIM - 1)
    IN  {<<<<a, b>>, <<c, d>>>> : a \in V, b \in V, c \in V, d \in V}

NoState == [content |-> <<>>, hash |-> -1]

Init ==
    /\ exp \in ExpValues
    /\ seed \in 0..(NumSeeds - 1)
    /\ \/ /\ entry = "solve_instance"
          /\ puzzle_dim \in MIN_PUZ_DIM..MAX_PUZ_DIM
          /\ content = SetGoal(puzzle_dim)
          /\ pc = "init_state"
       \/ /\ entry = "solve"
          /\ puzzle_dim = MIN_PUZ_DIM
          /\ content \in SuppliedGrids
          /\ pc = "call"
    /\ k = 0
    /\ calls = 0
    /\ open_set = {}
    /\ closed_set = {}
    /\ past_len = <<>>
    /\ steps = 0
    /\ current = NoState
    /\ curr_path = <<>>
    /\ actions = <<>>
    /\ result = <<>>
    /\ error = ""
    /\ run = 1
    /\ first = <<>>
    /\ generated = 0
    /\ pops = 0
    /\ pushes = 0
    /\ relaxed = 0
    /\ carried = 0
    /\ foreign = 0

\* ---------------------------------------------------------------- init_state

\* one iteration of init_state's loop: state = do_action(state, choice(available_actions(state)))
Randomize ==
    /\ pc = "init_state"
    /\ k < MaxScramble
    /\ \E i \in 1..Len(AvailableActions(content)) :
          content' = DoAction(content, AvailableActions(content)[i])
    /\ calls' = Helper(calls)
    /\ k' = k + 1
    /\ UNCHANGED <<pc, entry, puzzle_dim, exp, seed, astar_vars, result, error,
                   run, first, generated, pops, pushes, relaxed, carried, foreign>>

\* ---------------------------------------------------------------- astar

\* the caller resets do_action.calls and calls astar, which runs up to its loop
CallAstar ==
    /\ pc \in {"init_state", "call"}
    /\ calls' = 0
    /\ open_set' = {<<0, State(content), <<>>>>}
    /\ closed_set' = {State(content)}
    /\ past_len' = (State(content).hash :> 0)
    /\ steps' = 0
    /\ current' = NoState
    /\ curr_path' = <<>>
    /\ actions' = <<>>
    /\ result' = <<>>
    /\ k' = 0
    /\ generated' = 0
    /\ pops' = 0
    /\ pushes' = 1
    /\ relaxed' = 0
    /\ carried' = 0
    /\ foreign' = 0
    /\ pc' = "while"
    /\ UNCHANGED <<entry, puzzle_dim, content, exp, seed, error, run, first>>

\* one turn of the while loop up to the for loop: heappop, the logging line,
\* the goal test, available_actions
Pop ==
    /\ pc = "while"
    /\ open_set # {}
    /\ LET e == HeapMin(open_set)
           goal == State(SetGoal(puzzle_dim))
       IN  /\ open_set' = open_set \ {e}
           /\ current' = e[2]
           /\ curr_path' = e[3]
           /\ pops' = pops + 1
           /\ IF steps % LOG_EVERY = 0 /\ HeuristicRaises(e[2].content, goal.content)
              THEN /\ pc' = "raised"
                   /\ error' = "IndexError"
                   /\ UNCHANGED <<result, actions>>
              ELSE IF StateEq(e[2], goal)
              THEN /\ pc' = "done"
                   /\ result' = <<TRUE, e[3]>>
                   /\ UNCHANGED <<error, actions>>
              ELSE IF Where(e[2].content, 0) = <<>>
              THEN /\ pc' = "raised"
                   /\ error' = "IndexError"
                   /\ UNCHANGED <<result, actions>>
              ELSE /\ pc' = "for"
                   /\ actions' = AvailableActions(e[2].content)
                   /\ UNCHANGED <<result, error>>
    /\ UNCHANGED <<entry, puzzle_dim, content, exp, seed, k, calls, closed_set,
                   past_len, steps, run, first, generated, pushes, relaxed,
                   carried, foreign>>

\* one iteration of the for loop
Neighbor ==
    /\ pc = "for"
    /\ actions # <<>>
    /\ LET a == Head(actions)
           neighbor == State(DoAction(current.content, a))
           goal == State(SetGoal(puzzle_dim))
           seen == InClosed(neighbor, closed_set)
           len == Len(curr_path) + 1
       IN  /\ calls' = Helper(calls)
           /\ current' = [current EXCEPT !.content = ArgAfterDoAction(current.content, a)]
           /\ generated' = generated + 1
           /\ actions' = Tail(actions)
           /\ IF PushCondition(neighbor, closed_set, past_len, current)
              THEN /\ past_len' = [h \in DOMAIN past_len \cup {neighbor.hash} |->
                                      IF h = neighbor.hash THEN len ELSE past_len[h]]
                   /\ IF HeuristicRaises(neighbor.content, goal.content)
                      THEN /\ pc' = "raised"
                           /\ error' = "IndexError"
                           /\ UNCHANGED <<open_set, closed_set, pushes, relaxed>>
                      ELSE /\ open_set' = open_set \cup
                                {<<Cost(len, FixedHeuristic(neighbor.content, goal.content, exp, 1)),
                                   neighbor, Extend(curr_path, a)>>}
                           /\ closed_set' = AddVisited(closed_set, neighbor)
                           /\ pushes' = pushes + 1
                           /\ relaxed' = IF seen THEN relaxed + 1 ELSE relaxed
                           /\ UNCHANGED <<pc, error>>
              ELSE UNCHANGED <<past_len, open_set, closed_set, pushes, relaxed, pc, error>>
    /\ UNCHANGED <<entry, puzzle_dim, content, exp, seed, k, steps,
                   curr_path, result, run, first, pops, carried, foreign>>

\* the for loop is over: steps += 1
EndFor ==
    /\ pc = "for"
    /\ actions = <<>>
    /\ steps' = steps + 1
    /\ pc' = "while"
    /\ UNCHANGED <<entry, puzzle_dim, content, exp, seed, k, calls, open_set,
                   closed_set, past_len, current, curr_path, actions, result,
                   error, run, first, generated, pops, pushes, relaxed,
                   carried, foreign>>

\* the while loop ends with the heap empty: return False, []
Exhausted ==
    /\ pc = "while"
    /\ open_set = {}
    /\ result' = <<FALSE, <<>>>>
    /\ pc' = "done"
    /\ UNCHANGED <<entry, puzzle_dim, content, exp, seed, k, calls, astar_vars,
                   error, run, first, generated, pops, pushes, relaxed,
                   carried, foreign>>

\* the caller keeps the result and makes the same call once more
SolveAgain ==
    /\ pc = "done"
    /\ run = 1
    /\ first' = result
    /\ run' = 2
    /\ pc' = "call"
    /\ UNCHANGED <<entry, puzzle_dim, content, exp, seed, k, calls, astar_vars,
                   result, error, generated, pops, pushes, relaxed,
                   carried, foreign>>

Next ==
    \/ Randomize
    \/ CallAstar
    \/ Pop
    \/ Neighbor
    \/ EndFor
    \/ Exhausted
    \/ SolveAgain

Spec == Init /\ [][Next]_vars

\* ---------------------------------------------------------------- astar on a counter in use

\* astar writes do_action.calls nowhere: on entry the counter is what it was
\* an astar that zeroes the counter itself on entry
CounterZeroed(c) == 0
CounterAtEntry(c) == c

\* astar called without the caller's reset of do_action.calls: after
\* init_state's do_action calls, or after an earlier solve
CallAstarNoReset ==
    /\ pc \in {"init_state", "call"}
    /\ calls' = CounterAtEntry(calls)
    /\ carried' = calls
    /\ foreign' = 0
    /\ open_set' = {<<0, State(content), <<>>>>}
    /\ closed_set' = {State(content)}
    /\ past_len' = (State(content).hash :> 0)
    /\ steps' = 0
    /\ current' = NoState
    /\ curr_path' = <<>>
    /\ actions' = <<>>
    /\ result' = <<>>
    /\ k' = 0
    /\ generated' = 0
    /\ pops' = 0
    /\ pushes' = 1
    /\ relaxed' = 0
    /\ pc' = "while"
    /\ UNCHANGED <<entry, puzzle_dim, content, exp, seed, error, run, first>>

\* a step of another astar solve, interleaved with this one: its for loop
\* calls do_action, the one function object both solves count on
OtherDoAction ==
    /\ pc \in {"while", "for"}
    /\ foreign < MaxForeign
    /\ calls' = Helper(calls)
    /\ foreign' = foreign + 1
    /\ UNCHANGED <<pc, entry, puzzle_dim, content, exp, seed, k, astar_vars, result,
                   error, run, first, generated, pops, pushes, relaxed, carried>>

SharedInit == Init /\ puzzle_dim = MIN_PUZ_DIM

SharedNext ==
    \/ Next
    \/ CallAstarNoReset
    \/ OtherDoAction

SharedSpec == SharedInit /\ [][SharedNext]_vars

\* ---------------------------------------------------------------- vocabulary of the properties

Goal == SetGoal(puzzle_dim)

\* every value 0..dim*dim-1 exactly once
IsPermutation(grid) ==
    \A n \in 0..(Len(grid) * Len(grid) - 1) : Len(Where(grid, n)) = 1

\* the grids one legal blank move away from grid
Neighbors(grid) ==
    {DoAction(grid, AvailableActions(grid)[i]) : i \in 1..Len(AvailableActions(grid))}

\* the grids some sequence of legal blank moves leads to from the grids of todo
RECURSIVE Closure(_, _)
Closure(todo, seen) ==
    IF todo = {} THEN seen
    ELSE LET next == (UNION {Neighbors(g) : g \in todo}) \ seen
         IN  Closure(next, seen \cup next)

\* the 2 x 2 grids reachable from the 2 x 2 goal
ReachableSupplied == Closure({SetGoal(MIN_PUZ_DIM)}, {SetGoal(MIN_PUZ_DIM)})

\* the start grid is reachable from the goal: init_state made it by legal
\* moves from the goal, or the caller supplied such a grid
Solvable == entry = "solve_instance" \/ content \in ReachableSupplied

\* a well-formed start grid the goal cannot be reached from
Unsolvable == entry = "solve" /\ IsPermutation(content) /\ content \notin ReachableSupplied

Malformed == entry = "solve" /\ ~IsPermutation(content)

InAstar == pc \in {"while", "for", "done", "raised"}

Returned == pc = "done"

Success == pc = "done" /\ result[1]

\* the grid after the Actions of path, applied to grid one after another
RECURSIVE ReplayFrom(_, _, _)
ReplayFrom(grid, path, i) ==
    IF i > Len(path) THEN grid
    ELSE CHOOSE r \in {ReplayFrom(g, path, i + 1) : g \in {DoAction(grid, path[i])}} : TRUE

Replay(grid, path) == ReplayFrom(grid, path, 1)

\* the two positions differ by exactly one in the row or in the column, never both
Adjacent(p1, p2) == Abs(p1[1] - p2[1]) + Abs(p1[2] - p2[2]) = 1

\* the Actions path[i], path[i+1], ... are legal blank moves when applied to
\* grid one after another
RECURSIVE LegalFrom(_, _, _)
LegalFrom(grid, path, i) ==
    i <= Len(path) =>
        /\ Adjacent(path[i].pos1, path[i].pos2)
        /\ Cell(grid, path[i].pos1) = 0 \/ Cell(grid, path[i].pos2) = 0
        /\ \A g \in {DoAction(grid, path[i])} : LegalFrom(g, path, i + 1)

\* the neighbor the for loop is about to generate
NextNeighbor == State(DoAction(current.content, Head(actions)))

\* ---------------------------------------------------------------- properties

\* what a step of the astar loop advances: heappops, successors, steps
Measure == pops + generated + steps

\* the number of grids of one parity class: (dim * dim)! / 2
RECURSIVE Factorial(_)
Factorial(n) == IF n = 0 THEN 1 ELSE n * Factorial(n - 1)
HalfOfAllGrids == Factorial(puzzle_dim * puzzle_dim) \div 2

\* C1: from every start grid reachable from the goal, astar terminates and
\* returns success = True; it never returns (False, []).  Termination: the
\* loop is never left through an empty heap or an exception, every step of
\* the call advances Measure, and there is at most one heappop per push
\* (one push per visited State and one per re-push of a visited State).
C1_SolvableSucceeds ==
    /\ [](Solvable /\ InAstar =>
            /\ error = "" /\ pc # "raised"
            /\ Returned => result[1]
            /\ pc = "while" => open_set # {}
            /\ Cardinality(closed_set) <= HalfOfAllGrids
            /\ pops <= Cardinality(closed_set) + relaxed)
    /\ [][Solvable /\ pc \in {"while", "for"} => Measure' = Measure + 1]_vars

C1_Witness ==
    Solvable /\ Success /\ puzzle_dim = MAX_PUZ_DIM /\ Len(result[2]) >= 5 /\ pops > 10

\* C2: when astar returns success, replaying the returned path from the
\* start grid with do_action yields the goal grid (empty path included).
C2_PathReachesGoal == Success => Replay(content, result[2]) = Goal

C2_Witness ==
    Success /\ Len(result[2]) >= 5 /\ Replay(content, result[2]) = Goal /\ content # Goal

\* C3: every Action of a returned path swaps two positions that differ by
\* one in the row or in the column, and when it is applied in the replay
\* one of the two positions holds the blank.
C3_LegalMoves == Success => LegalFrom(content, result[2], 1)

C3_Witness ==
    /\ Success
    /\ Len(result[2]) >= 4
    /\ \E i, j \in 1..Len(result[2]) :
          /\ result[2][i].pos1[1] # result[2][i].pos2[1]
          /\ result[2][j].pos1[2] # result[2][j].pos2[2]

\* C4 as claimed: a malformed start grid is rejected with InvalidGrid before
\* the search starts, the counter stays 0 and no result is returned.
C4_RejectedBeforeSearch ==
    Malformed /\ pc # "call" =>
        /\ pc = "raised"
        /\ error = "InvalidGrid"
        /\ calls = 0
        /\ pops = 0
        /\ result = <<>>

\* C4 as amended: a malformed start grid is not checked before the search:
\* astar sets up its frontier, pops the start and then raises IndexError
\* (from the logging line's heuristic or from available_actions) before any
\* successor is generated; the counter stays 0 and no result is returned.
C4_IndexErrorBeforeExpansion ==
    Malformed =>
        /\ pc \in {"call", "while", "raised"}
        /\ pc = "while" => pops = 0 /\ open_set = {<<0, State(content), <<>>>>}
        /\ pc = "raised" => error = "IndexError" /\ pops = 1
        /\ calls = 0
        /\ generated = 0
        /\ result = <<>>

C4_Witness ==
    /\ content = <<<<1, 1>>, <<2, 0>>>>
    /\ Malformed
    /\ pc = "raised"
    /\ error = "IndexError"
    /\ calls = 0

\* C5: with the counter reset right before the astar call, the counter
\* equals the number of successors generated so far at every point of the
\* call and at its end: one per neighbor of each expanded node, pushed or
\* not, and not one per popped node.
C5_CounterCountsSuccessors ==
    InAstar =>
        /\ calls = generated
        /\ generated >= pushes - 1
        /\ pc \in {"while", "done"} => 2 * steps <= generated /\ generated <= 4 * steps

C5_Witness ==
    /\ Returned
    /\ calls = generated
    /\ calls > pops
    /\ calls > pushes

\* C6: with exp = 1 and p = 1 the fixed heuristic of a state is at most the
\* number of moves of any walk from the goal to it (so at most the least
\* number of moves), and a returned path is at least as long as the
\* heuristic of the start.
C6_Admissible ==
    /\ pc = "init_state" => FixedHeuristic(content, Goal, 1, 1) <= k
    /\ Success => Len(result[2]) >= FixedHeuristic(content, Goal, 1, 1)

C6_Witness ==
    /\ pc = "init_state"
    /\ k >= 5
    /\ FixedHeuristic(content, Goal, 1, 1) = k

\* C7: when the goal is not reachable from the start grid, astar ends with
\* the frontier empty and returns (False, []); it raises nothing and does
\* not loop forever: every step advances Measure until the heap is empty,
\* the visited States are grids the start grid can reach, and there is at
\* most one heappop per push.
C7_UnsolvableFails ==
    /\ [](Unsolvable /\ InAstar =>
            /\ error = "" /\ pc # "raised"
            /\ Returned => result = <<FALSE, <<>>>> /\ open_set = {}
            /\ Cardinality(closed_set) <= Cardinality(Closure({content}, {content}))
            /\ pops <= Cardinality(closed_set) + relaxed)
    /\ [][Unsolvable /\ pc \in {"while", "for"} =>
            \/ Measure' = Measure + 1
            \/ open_set = {} /\ pc' = "done"]_vars

C7_Witness ==
    /\ Unsolvable
    /\ Returned
    /\ result = <<FALSE, <<>>>>
    /\ open_set = {}
    /\ pops >= Cardinality(Closure({content}, {content}))

\* C8: when the goal is one legal blank move away from the start, astar
\* returns a path of length 1 whose Action swaps the blank's position with
\* the position of the tile to move; [[1,2],[0,3]] gives ((1,0),(1,1)).
OneMoveAway == IsPermutation(content) /\ Goal \in Neighbors(content)

C8_OneMove ==
    Returned /\ OneMoveAway =>
        /\ result[1]
        /\ result[2] = <<Action(Where(content, 0)[1], Where(Goal, 0)[1])>>
        /\ content = <<<<1, 2>>, <<0, 3>>>> => result[2] = <<Action(<<1, 0>>, <<1, 1>>)>>

C8_Witness ==
    /\ Returned
    /\ content = <<<<1, 2>>, <<0, 3>>>>
    /\ result = <<TRUE, <<Action(<<1, 0>>, <<1, 1>>)>>>>

C10_RelaxNeverHolds ==
    Solvable =>
        /\ pc = "for" /\ actions # <<>> /\ InClosed(NextNeighbor, closed_set)
              => ~(past_len[current.hash] + 1 < past_len[NextNeighbor.hash])
        /\ relaxed = 0
        /\ InAstar => pushes = Cardinality(closed_set)

\* C10 as amended: the relax condition can hold for a neighbor already in
\* the visited set; the State is then pushed again and its g-score is
\* rewritten to len(curr_path) + 1.  A visited State is pushed again only
\* then, so the pushes are the visited States plus these re-pushes.
C10_RepushOnlyOnRelax ==
    /\ [](InAstar /\ error = "" => pushes = Cardinality(closed_set) + relaxed)
    /\ [][pc = "for" /\ actions # <<>> /\ InClosed(NextNeighbor, closed_set) =>
            IF past_len[current.hash] + 1 < past_len[NextNeighbor.hash]
            THEN /\ pushes' = pushes + 1
                 /\ past_len'[NextNeighbor.hash] = Len(curr_path) + 1
                 /\ closed_set' = closed_set
            ELSE UNCHANGED <<pushes, past_len, open_set, closed_set>>]_vars

C10_Witness ==
    /\ Solvable
    /\ relaxed > 0
    /\ pushes > Cardinality(closed_set)
    /\ \E e1, e2 \in open_set : e1 # e2 /\ StateEq(e1[2], e2[2])

\* C11: the counter is one cell shared by every caller of do_action and
\* astar does not reset it: during and at the end of an astar call it holds
\* what it held on entry, plus the successors this call generated, plus the
\* do_action calls another solve made meanwhile.  So without a reset right
\* before the call, or with another solve's steps interleaved, the value
\* read at the end differs from the successors the solve itself generated.
C11_CounterShared ==
    InAstar =>
        /\ calls = carried + generated + foreign
        /\ carried + foreign > 0 => calls # generated
        /\ carried + foreign = 0 => calls = generated

C11_Witness ==
    /\ Success
    /\ run = 2
    /\ carried > 0
    /\ foreign > 0
    /\ generated > 0
    /\ calls > generated
    /\ calls = carried + generated + foreign

\* the grids the search holds: the popped one, the visited ones, the frontier's
SearchGrids ==
    {s.content : s \in closed_set} \cup {e[2].content : e \in open_set}
        \cup (IF current = NoState THEN {} ELSE {current.content})

\* new is grid with the values of the two cells of a exchanged, every
\* other cell as in grid
SwapOf(grid, a, new) ==
    /\ Len(new) = Len(grid)
    /\ a.pos1 # a.pos2
    /\ Cell(new, a.pos1) = Cell(grid, a.pos2)
    /\ Cell(new, a.pos2) = Cell(grid, a.pos1)
    /\ \A i \in 1..(Len(grid) * Len(grid)) :
          LET p == Positions(Len(grid))[i]
          IN  p \notin {a.pos1, a.pos2} => Cell(new, p) = Cell(grid, p)

\* C12: do_action leaves its input grid as it was, and the grid it returns
\* is the input with the two cells of the action exchanged and every other
\* cell the same (in init_state's loop and in astar's for loop); so from a
\* start that is a permutation of 0..N*N-1 every grid of the search is one.
C12_DoActionFrame ==
    /\ [][pc = "for" /\ actions # <<>> =>
            /\ current'.content = current.content
            /\ content' = content
            /\ closed_set \subseteq closed_set'
            /\ \A e \in open_set' \ open_set :
                  /\ SwapOf(current.content, Head(actions), e[2].content)
                  /\ e[2].content # current.content]_vars
    /\ [][pc = "init_state" /\ k' = k + 1 =>
            \E i \in 1..Len(AvailableActions(content)) :
               SwapOf(content, AvailableActions(content)[i], content')]_vars
    /\ [](IsPermutation(content) =>
            /\ current # NoState => IsPermutation(current.content)
            /\ pc = "for" /\ actions # <<>> => IsPermutation(NextNeighbor.content))

C12_Witness ==
    /\ pc = "for"
    /\ puzzle_dim = MAX_PUZ_DIM
    /\ pushes > 10
    /\ actions # AvailableActions(current.content)
    /\ State(current.content) = current
    /\ \E e \in open_set : e[3] = Extend(curr_path, AvailableActions(current.content)[1])
                            /\ SwapOf(current.content, AvailableActions(current.content)[1],
                                      e[2].content)
    /\ \A g \in SearchGrids : IsPermutation(g)

\* the grids at most n legal blank moves away from the grids of seen
RECURSIVE Within(_, _, _)
Within(todo, seen, n) ==
    IF n = 0 \/ todo = {} THEN seen
    ELSE LET next == (UNION {Neighbors(g) : g \in todo}) \ seen
         IN  Within(next, seen \cup next, n - 1)

\* C13: with the fixed heuristic and exp = 1 the returned path is a
\* shortest one: the goal is not among the grids that fewer legal moves
\* than the path has lead to from the start.
C13_ShortestPath ==
    Success /\ exp = 1 /\ result[2] # <<>> =>
        Goal \notin Within({content}, {content}, Len(result[2]) - 1)

C13_Witness ==
    /\ Success
    /\ exp = 1
    /\ puzzle_dim = MAX_PUZ_DIM
    /\ relaxed > 0
    /\ Len(result[2]) >= 6
    /\ Goal \in Within({content}, {content}, Len(result[2]))
    /\ Goal \notin Within({content}, {content}, Len(result[2]) - 1)

\* the keys of the g-score table
PastLenKeys == DOMAIN past_len

\* what C14 says of one frontier entry (f, State, path); it depends on the
\* entry and on the arguments of the astar call only
EntryOk(e) ==
    /\ Replay(content, e[3]) = e[2].content
    /\ e[2] = State(e[2].content)
    /\ IF e[3] = <<>>
       THEN e = <<0, State(content), <<>>>>
       ELSE e[1] = Len(e[3]) + FixedHeuristic(e[2].content, Goal, exp, 1)

\* C14: at every point of the astar loop, for each frontier entry
\* (f, State, path): replaying path from the start grid gives the State's
\* grid; the State is in the visited set; the visited set and the keys of
\* the g-score table are the same States; the initial entry is
\* (0, start, []) and every other entry has f = len(path) + the heuristic
\* of its State (the fixed heuristic does not depend on when it is called).
\* An entry is what it was when it was pushed, and the arguments of the
\* call do not change, so what holds of an entry when it enters the
\* frontier holds of it as long as it is there.
C14_FrontierEntries ==
    /\ [](pc \in {"while", "for"} =>
            /\ {s.hash : s \in closed_set} = PastLenKeys
            /\ \A e \in open_set : e[2] \in closed_set /\ InClosed(e[2], closed_set))
    /\ [][/\ \A e \in open_set' \ open_set : EntryOk(e)
          /\ open_set' # open_set \/ pc \in {"while", "for"} =>
                content' = content /\ exp' = exp /\ seed' = seed]_vars

C14_Witness ==
    /\ pc = "while"
    /\ puzzle_dim = MAX_PUZ_DIM
    /\ relaxed > 0
    /\ Cardinality(open_set) >= 8
    /\ Cardinality(closed_set) = Cardinality(PastLenKeys)
    /\ \E e \in open_set :
          /\ Len(e[3]) >= 4
          /\ e[1] > Len(e[3])
          /\ Replay(content, e[3]) = e[2].content
          /\ e[2] \in closed_set

====
